---- MODULE Spec2Model ----
(***************************************************************************)
(* Model of hyperion's dust model (hyperion/dust/dust_type.py) and filter  *)
(* curve (hyperion/filter/filter.py).                                      *)
(*                                                                         *)
(* Spec       : one SphericalDust instance, the files it writes and reads, *)
(*              and the calls made on it.                                  *)
(* SpecFilter : one Filter, the assignments to its properties and its      *)
(*              storage in an HDF5 group.                                  *)
(* SpecHG     : henyey_greenstein applied to scattering cosines, asymmetry *)
(*              factors and polarizations drawn from a grid of rationals.  *)
(* SpecLoader : one construction of a format loader (IsotropicSphericalDust *)
(*              ... BHDust) from the arrays or the files it is given.      *)
(* Each specification holds the variables of the others at their initial   *)
(* values.                                                                 *)
(***************************************************************************)
EXTENDS Integers, Sequences, FiniteSets, TLC

\* ------------------------------------------------------------------ bounds
\* Temperatures are 0..MaxTemp, specific energies 0..MaxEnergy.
MaxTemp == 1
MaxEnergy == 1
\* Arrays given to a Filter have 1..MaxLen elements.
MaxLen == 2
\* mu, g and p_lin_max are multiples of 1/GridDen.
GridDen == 4
\* A loader is given 0..MaxWav wavelengths and files of 1..MaxMu angles.
MaxWav == 3
MaxMu == 2
\* Each record of the MieX matrix files holds 1..MaxAngles angles.
MaxAngles == 1
\* At most MaxBad entries of the MieX tables are NaN or not positive.
MaxBad == 2

\* ------------------------------------------------------------- value space
\* Python's None, for every field that is otherwise a number.
NoneVal == -1

\* The dust file the calls name.
Paths == {1}
Modes == {"no", "fast", "slow", "cap"}
\* Modes a caller may pass: the four valid ones and one that is not.
ModeInputs == Modes \cup {"bogus"}
Temperatures == (0..MaxTemp) \cup {NoneVal}

VARIABLES
    filename,            \* self.filename
    md5,                 \* self.md5
    optical_properties,  \* self.optical_properties (identity of the table held)
    emissivities,        \* self.emissivities: [set, from]
    mean_opacities,      \* self.mean_opacities: [set, from]
    sublimation_mode,    \* self.sublimation_mode
    sublimation_energy,  \* self.sublimation_energy
    files,               \* the file system: path -> {} (no file) or {container}
    written,             \* history: path -> {} or {the policy of the model last written there}
    last                 \* history: the last call, its arguments, outcome and steps

VARIABLES
    name,                \* Filter._name
    spectral_coord,      \* Filter._spectral_coord
    transmission,        \* Filter._transmission
    group,               \* the HDF5 group: {} or {the dataset stored in it}
    stored,              \* history: {} or {the Filter that was stored in group}
    flast                \* history: the last Filter call and its outcome

VARIABLES
    hg_in,               \* the arguments of henyey_greenstein: [mu, g, p_lin_max]
    hg_out               \* <<>>, or <<P1, P2, P3, P4>> as it returned them

VARIABLES
    ld_in,               \* what the loader is given: its class and its files
    ld                   \* the construction: status, table and statements run

dust_vars == <<filename, md5, optical_properties, emissivities, mean_opacities,
               sublimation_mode, sublimation_energy, files, written, last>>
filter_vars == <<name, spectral_coord, transmission, group, stored, flast>>
hg_vars == <<hg_in, hg_out>>
loader_vars == <<ld_in, ld>>
not_dust == <<filter_vars, hg_vars, loader_vars>>
not_filter == <<dust_vars, hg_vars, loader_vars>>
not_hg == <<dust_vars, filter_vars, loader_vars>>
not_loader == <<dust_vars, filter_vars, hg_vars>>

vars == <<filename, md5, optical_properties, emissivities, mean_opacities,
          sublimation_mode, sublimation_energy, files, written, last,
          name, spectral_coord, transmission, group, stored, flast,
          hg_in, hg_out, ld_in, ld>>

\* ------------------------------------------------------- henyey_greenstein
\* Rationals <<numerator, denominator>> in lowest terms, denominator positive.
RECURSIVE GCD(_, _)
GCD(a, b) == IF b = 0 THEN a ELSE GCD(b, a % b)
Abs(n) == IF n < 0 THEN 0 - n ELSE n
Rat(n, d) ==
    LET k == GCD(Abs(n), Abs(d))
    IN  IF d < 0 THEN <<(0 - n) \div k, (0 - d) \div k>>
        ELSE <<n \div k, d \div k>>
Zero == Rat(0, 1)
One == Rat(1, 1)
Two == Rat(2, 1)
RAdd(x, y) == Rat(x[1] * y[2] + y[1] * x[2], x[2] * y[2])
RSub(x, y) == Rat(x[1] * y[2] - y[1] * x[2], x[2] * y[2])
RMul(x, y) == Rat(x[1] * y[1], x[2] * y[2])
RDiv(x, y) == Rat(x[1] * y[2], x[2] * y[1])
RNeg(x) == Rat(0 - x[1], x[2])
IsSquare(n) == \E r \in 0..n : r * r = n
Sqrt(n) == CHOOSE r \in 0..n : r * r = n
\* x ** 1.5, for x the square of a rational.
Pow15(x) == Rat(x[1] * Sqrt(x[1]), x[2] * Sqrt(x[2]))

\* henyey_greenstein with the factor 2 of P3 left out.
henyey_greenstein_half_P3(mu, g, p_lin_max) ==
    LET P1 == RDiv(RSub(One, RMul(g, g)),
                   Pow15(RSub(RAdd(One, RMul(g, g)), RMul(RMul(Two, g), mu))))
        P2 == RDiv(RMul(RMul(RNeg(p_lin_max), P1), RSub(One, RMul(mu, mu))),
                   RAdd(One, RMul(mu, mu)))
        P3 == RDiv(RMul(P1, mu), RAdd(One, RMul(mu, mu)))
        P4 == Zero
    IN  <<P1, P2, P3, P4>>

\* henyey_greenstein(mu, g, p_lin_max)
henyey_greenstein(mu, g, p_lin_max) ==
    LET P1 == RDiv(RSub(One, RMul(g, g)),
                   Pow15(RSub(RAdd(One, RMul(g, g)), RMul(RMul(Two, g), mu))))
        P2 == RDiv(RMul(RMul(RNeg(p_lin_max), P1), RSub(One, RMul(mu, mu))),
                   RAdd(One, RMul(mu, mu)))
        P3 == RDiv(RMul(RMul(P1, Two), mu), RAdd(One, RMul(mu, mu)))
        P4 == Zero
    IN  <<P1, P2, P3, P4>>

\* The arguments on the grid for which ** 1.5 is a rational: mu in [-1, 1],
\* g in (-1, 1), p_lin_max in [0, 1].
HGInputs ==
    {in \in [mu : {Rat(k, GridDen) : k \in (0 - GridDen)..GridDen},
             g : {Rat(j, GridDen) : j \in (1 - GridDen)..(GridDen - 1)},
             p_lin_max : {Rat(q, GridDen) : q \in 0..GridDen}] :
        LET base == RSub(RAdd(One, RMul(in.g, in.g)),
                         RMul(RMul(Two, in.g), in.mu))
        IN  IsSquare(base[1]) /\ IsSquare(base[2])}

\* The instance as one value, and the assignment of one.
Self ==
    [filename |-> filename, md5 |-> md5,
     optical_properties |-> optical_properties,
     emissivities |-> emissivities, mean_opacities |-> mean_opacities,
     sublimation_mode |-> sublimation_mode,
     sublimation_energy |-> sublimation_energy]

Is(s) ==
    /\ filename = s.filename
    /\ md5 = s.md5
    /\ optical_properties = s.optical_properties
    /\ emissivities = s.emissivities
    /\ mean_opacities = s.mean_opacities
    /\ sublimation_mode = s.sublimation_mode
    /\ sublimation_energy = s.sublimation_energy

Become(s) ==
    /\ filename' = s.filename
    /\ md5' = s.md5
    /\ optical_properties' = s.optical_properties
    /\ emissivities' = s.emissivities
    /\ mean_opacities' = s.mean_opacities
    /\ sublimation_mode' = s.sublimation_mode
    /\ sublimation_energy' = s.sublimation_energy

\* ------------------------------------------------------- collaborators
\* The tables are held by identity: what a table was computed or read from.
\* The calls into them are taken to return; only their set flag and their
\* origin are kept.
\* OpticalProperties(), Emissivities(), MeanOpacities(): empty tables.
OpticalProperties == "empty"
Emissivities == [set |-> FALSE, from |-> <<"unset", "", "">>]
MeanOpacities == [set |-> FALSE, from |-> <<"unset", "", "">>]

\* Emissivities.set_lte(optical_properties)
set_lte(op) == [set |-> TRUE, from |-> <<"lte", op, "">>]
\* MeanOpacities.compute(emissivities, optical_properties)
compute(em, op) == [set |-> TRUE, from |-> <<"mean", em.from[1], op>>]
\* X.from_table_set(ts): the table of the container replaces the payload.
from_table_set(t) == [set |-> TRUE, from |-> t]

\* OpticalProperties._temperature2specific_energy: a relation of the table
\* held, not the identity.
Weight(op) == IF op = "empty" THEN 2 ELSE 3
temperature2specific_energy(op, T) == T * Weight(op)

Energies(op) ==
    (0..MaxEnergy) \cup {temperature2specific_energy(op, T) : T \in 0..MaxTemp}
        \cup {NoneVal}

\* --------------------------------------------------------------- containers
\* atpy.TableSet(): keywords (a function of the keywords present) and tables.
TableSet ==
    [keywords |-> [k \in {} |-> 0], optical_properties |-> "",
     mean_opacities |-> <<"unset", "", "">>, emissivities |-> <<"unset", "", "">>]
add_keyword(ts, k, v) ==
    [ts EXCEPT !.keywords =
        [x \in DOMAIN ts.keywords \cup {k} |-> IF x = k THEN v ELSE ts.keywords[x]]]

\* Containers this program did not write, tagged version v and type t.
ExternalContainer(v, t) ==
    [keywords |-> [version |-> v, type |-> t, asciimd5 |-> 1,
                   sublimation_mode |-> "fast", sublimation_specific_energy |-> 0],
     optical_properties |-> "ext",
     mean_opacities |-> <<"table", "ext", "">>,
     emissivities |-> <<"table", "ext", "">>]
ExternalContainers ==
    {ExternalContainer(1, 1), ExternalContainer(2, 1), ExternalContainer(1, 2)}

Call(op, args, err, steps) ==
    [op |-> op, args |-> args, err |-> err, steps |-> steps]
\* One step of a call, with the flags as they were when it started.
Step(step, s) ==
    [step |-> step, em |-> s.emissivities.set, mo |-> s.mean_opacities.set]

\* ------------------------------------------------- sublimation setters
\* set_sublimation_temperature with the threshold check after the assignment
\* of the mode.
set_sublimation_temperature_late_check(self, mode, temperature) ==
    IF mode \notin Modes
    THEN [self |-> self, err |-> "mode should be one of no/fast/slow/cap"]
    ELSE IF temperature = NoneVal
    THEN [self |-> [self EXCEPT !.sublimation_mode = mode],
          err |-> IF mode # "no"
                  THEN "Need to specify a sublimation temperature"
                  ELSE "TypeError"]
    ELSE [self |-> [self EXCEPT
                      !.sublimation_mode = mode,
                      !.sublimation_energy =
                          temperature2specific_energy(self.optical_properties,
                                                      temperature)],
          err |-> "ok"]

\* set_sublimation_temperature storing the temperature as given.
set_sublimation_temperature_raw(self, mode, temperature) ==
    IF mode \notin Modes
    THEN [self |-> self, err |-> "mode should be one of no/fast/slow/cap"]
    ELSE IF mode # "no" /\ temperature = NoneVal
    THEN [self |-> self, err |-> "Need to specify a sublimation temperature"]
    ELSE [self |-> [self EXCEPT !.sublimation_mode = mode,
                                !.sublimation_energy = temperature],
          err |-> "ok"]

\* set_sublimation_temperature(mode, temperature): the instance after the
\* call and the error raised ("ok" when none is).
set_sublimation_temperature(self, mode, temperature) ==
    IF mode \notin Modes
    THEN [self |-> self, err |-> "mode should be one of no/fast/slow/cap"]
    ELSE IF mode # "no" /\ temperature = NoneVal
    THEN [self |-> self, err |-> "Need to specify a sublimation temperature"]
    ELSE IF temperature = NoneVal
    THEN \* line 111 has run when the conversion of None raises on line 112
         [self |-> [self EXCEPT !.sublimation_mode = mode], err |-> "TypeError"]
    ELSE [self |-> [self EXCEPT
                      !.sublimation_mode = mode,
                      !.sublimation_energy =
                          temperature2specific_energy(self.optical_properties,
                                                      temperature)],
          err |-> "ok"]

\* set_sublimation_specific_energy(mode, specific_energy)
set_sublimation_specific_energy(self, mode, specific_energy) ==
    IF mode \notin Modes
    THEN [self |-> self, err |-> "mode should be one of no/fast/slow/cap"]
    ELSE IF mode # "no" /\ specific_energy = NoneVal
    THEN [self |-> self, err |-> "Need to specify a sublimation specific_energy"]
    ELSE [self |-> [self EXCEPT !.sublimation_mode = mode,
                                !.sublimation_energy = specific_energy],
          err |-> "ok"]

\* ------------------------------------------------------------ write, plot
\* _write_dust_sublimation without 'cap' in the list of modes that carry an
\* energy.
write_dust_sublimation_no_cap(self, ts) ==
    LET ts1 == add_keyword(ts, "sublimation_mode", self.sublimation_mode)
    IN  IF self.sublimation_mode \in {"slow", "fast"}
        THEN add_keyword(ts1, "sublimation_specific_energy",
                         self.sublimation_energy)
        ELSE ts1

\* _write_dust_sublimation(table_set)
write_dust_sublimation(self, ts) ==
    LET ts1 == add_keyword(ts, "sublimation_mode", self.sublimation_mode)
    IN  IF self.sublimation_mode \in {"slow", "fast", "cap"}
        THEN add_keyword(ts1, "sublimation_specific_energy",
                         self.sublimation_energy)
        ELSE ts1

\* lazy_tables computing the LTE emissivities whether or not they are set.
lazy_tables_always(self) ==
    LET s1    == [self EXCEPT !.emissivities = set_lte(self.optical_properties)]
        log1  == <<Step("set_lte", self)>>
        run2  == ~s1.mean_opacities.set
        s2    == IF run2
                 THEN [s1 EXCEPT !.mean_opacities =
                                     compute(s1.emissivities,
                                             s1.optical_properties)]
                 ELSE s1
        log2  == IF run2 THEN Append(log1, Step("compute", s1)) ELSE log1
    IN  [self |-> s2, steps |-> log2]

\* lazy_tables with the two statements in the other order.
lazy_tables_swapped(self) ==
    LET run1  == ~self.mean_opacities.set
        s1    == IF run1
                 THEN [self EXCEPT !.mean_opacities =
                                       compute(self.emissivities,
                                               self.optical_properties)]
                 ELSE self
        log1  == IF run1 THEN <<Step("compute", self)>> ELSE <<>>
        run2  == ~s1.emissivities.set
        s2    == IF run2
                 THEN [s1 EXCEPT !.emissivities =
                                     set_lte(s1.optical_properties)]
                 ELSE s1
        log2  == IF run2 THEN Append(log1, Step("set_lte", s1)) ELSE log1
    IN  [self |-> s2, steps |-> log2]

\* The first two statements of write and of plot: emissivities, then mean
\* opacities, each only if not set. The instance after them and the steps run.
lazy_tables(self) ==
    LET run1  == ~self.emissivities.set
        s1    == IF run1
                 THEN [self EXCEPT !.emissivities =
                                       set_lte(self.optical_properties)]
                 ELSE self
        log1  == IF run1 THEN <<Step("set_lte", self)>> ELSE <<>>
        run2  == ~s1.mean_opacities.set
        s2    == IF run2
                 THEN [s1 EXCEPT !.mean_opacities =
                                     compute(s1.emissivities,
                                             s1.optical_properties)]
                 ELSE s1
        log2  == IF run2 THEN Append(log1, Step("compute", s1)) ELSE log1
    IN  [self |-> s2, steps |-> log2]

\* write(filename): the instance after the call, the container written and
\* the steps run.
write(self, path) ==
    LET lz  == lazy_tables(self)
        s   == lz.self
        ts0 == add_keyword(add_keyword(TableSet, "version", 1), "type", 1)
        ts1 == IF s.md5 # NoneVal THEN add_keyword(ts0, "asciimd5", s.md5)
                                  ELSE ts0
        ts2 == [ts1 EXCEPT !.optical_properties = s.optical_properties,
                           !.mean_opacities = s.mean_opacities.from,
                           !.emissivities = s.emissivities.from]
        ts3 == write_dust_sublimation(s, ts2)
    IN  [self  |-> [s EXCEPT !.filename = path],
         ts    |-> ts3,
         steps |-> Append(lz.steps, Step("to_table_set", s))]

\* plot(filename)
plot(self) ==
    LET lz == lazy_tables(self)
    IN  [self |-> lz.self, steps |-> Append(lz.steps, Step("plot", lz.self))]

\* -------------------------------------------------------------------- read
\* read(filename) with the file system fs; is_str: type(filename) is str.
read(self, fs, path, is_str) ==
    IF is_str /\ fs[path] = {}
    THEN [self |-> self, err |-> "File not found"]
    ELSE
    LET s0 == IF is_str THEN [self EXCEPT !.filename = path] ELSE self
        ts == CHOOSE c \in fs[path] : TRUE
    IN  IF ts.keywords["version"] # 1
        THEN [self |-> s0, err |-> "Version should be 1"]
        ELSE IF ts.keywords["type"] # 1
        THEN [self |-> s0, err |-> "Type should be 1"]
        ELSE [self |-> [s0 EXCEPT
                          !.md5 = IF "asciimd5" \in DOMAIN ts.keywords
                                  THEN ts.keywords["asciimd5"] ELSE NoneVal,
                          !.optical_properties = ts.optical_properties,
                          !.mean_opacities = from_table_set(ts.mean_opacities),
                          !.emissivities = from_table_set(ts.emissivities)],
              err |-> "ok"]

\* ---------------------------------------------------------------- __init__
\* The fields __init__ sets before it looks at its arguments.
Fresh ==
    LET s == [filename |-> NoneVal, md5 |-> NoneVal,
              optical_properties |-> OpticalProperties,
              emissivities |-> Emissivities,
              mean_opacities |-> MeanOpacities,
              sublimation_mode |-> "unbound", sublimation_energy |-> NoneVal]
    IN  set_sublimation_specific_energy(s, "no", 0).self

\* SphericalDust(*args): args holds paths. The caller's name is bound to the
\* new instance only when the constructor returns.
init(self, fs, args) ==
    IF Len(args) = 0 THEN [self |-> Fresh, err |-> "ok"]
    ELSE IF Len(args) = 1
    THEN LET r == read(Fresh, fs, args[1], TRUE)
         IN  IF r.err = "ok" THEN r ELSE [self |-> self, err |-> r.err]
    ELSE [self |-> self,
          err |-> "SphericalDust cannot take more than one argument"]

\* ------------------------------------------------------------------ Filter
\* Python values of a Filter: None, a str, an object that is neither, and an
\* astropy Quantity (a unit and a one-dimensional array of values).
PyNone == [t |-> "NoneType"]
Str(v) == [t |-> "str", v |-> v]
PyInt == [t |-> "int"]
Quantity(unit, value) == [t |-> "Quantity", unit |-> unit, value |-> value]

PhysicalType(unit) ==
    CASE unit = "Hz"  -> "frequency"
      [] unit = "um"  -> "length"
      [] unit = "one" -> "dimensionless"
      [] OTHER        -> "temperature"

\* hyperion.util.validator.validate_array with ndim=1: the value, or the
\* error raised. shape is NoneVal when no shape is asked for.
validate_array(value, domain, shape, physical_type) ==
    IF PhysicalType(value.unit) \notin physical_type
    THEN [err |-> "TypeError", value |-> value]
    ELSE IF shape # NoneVal /\ Len(value.value) # shape
    THEN [err |-> "ValueError", value |-> value]
    ELSE IF domain = "strictly-positive"
            /\ \E i \in 1..Len(value.value) : value.value[i] <= 0
    THEN [err |-> "ValueError", value |-> value]
    ELSE IF domain = "positive"
            /\ \E i \in 1..Len(value.value) : value.value[i] < 0
    THEN [err |-> "ValueError", value |-> value]
    ELSE [err |-> "ok", value |-> value]

\* Filter as one value, and the assignment of one.
FilterSelf ==
    [name |-> name, spectral_coord |-> spectral_coord,
     transmission |-> transmission]
FilterBecome(f) ==
    /\ name' = f.name
    /\ spectral_coord' = f.spectral_coord
    /\ transmission' = f.transmission

\* name.setter
set_name(f, value) ==
    IF value = PyNone \/ value.t = "str"
    THEN [self |-> [f EXCEPT !.name = value], err |-> "ok"]
    ELSE [self |-> f, err |-> "TypeError"]

\* spectral_coord.setter
set_spectral_coord(f, value) ==
    IF value = PyNone
    THEN [self |-> [f EXCEPT !.spectral_coord = PyNone], err |-> "ok"]
    ELSE LET r == validate_array(value, "strictly-positive", NoneVal,
                                 {"frequency", "length", "energy"})
         IN  IF r.err = "ok"
             THEN [self |-> [f EXCEPT !.spectral_coord = r.value], err |-> "ok"]
             ELSE [self |-> f, err |-> r.err]

\* transmission.setter
set_transmission(f, value) ==
    IF value = PyNone
    THEN [self |-> [f EXCEPT !.transmission = PyNone], err |-> "ok"]
    ELSE LET r == validate_array(value, "positive",
                                 IF f.spectral_coord = PyNone THEN NoneVal
                                 ELSE Len(f.spectral_coord.value),
                                 {"dimensionless"})
         IN  IF r.err = "ok"
             THEN [self |-> [f EXCEPT !.transmission = r.value], err |-> "ok"]
             ELSE [self |-> f, err |-> r.err]

\* Filter(): every property None.
Filter ==
    LET blank == [name |-> PyNone, spectral_coord |-> PyNone,
                  transmission |-> PyNone]
    IN  set_transmission(
            set_spectral_coord(set_name(blank, PyNone).self, PyNone).self,
            PyNone).self

\* x.to(u.Hz, equivalencies=u.spectral()).value, element by element, in units
\* in which the speed of light is 12 um Hz.
ToHz(q) ==
    [i \in 1..Len(q.value) |->
        IF q.unit = "um" THEN 12 \div q.value[i] ELSE q.value[i]]
\* zip(a, b): pairs, as many as the shorter of the two holds.
Zip(a, b) ==
    [i \in 1..(IF Len(a) < Len(b) THEN Len(a) ELSE Len(b)) |-> <<a[i], b[i]>>]
\* np.string_(x): the bytes of str(x); bytes.decode('utf-8').
string_(x) == IF x = PyNone THEN "None" ELSE x.v
decode(b) == Str(b)

\* to_hdf5_group(group, name): the group after the call, or the error raised.
to_hdf5_group(f, g) ==
    IF f.spectral_coord = PyNone \/ f.transmission = PyNone
    THEN [group |-> g, err |-> "AttributeError"]
    ELSE IF g # {}
    THEN [group |-> g, err |-> "name already exists"]
    ELSE [group |-> {[data |-> Zip(ToHz(f.spectral_coord), f.transmission.value),
                      attrs |-> [name |-> string_(f.name)]]},
          err |-> "ok"]

\* from_hdf5_group(cls, group, name): the Filter returned, or the error raised.
from_hdf5_group(g) ==
    IF g = {} THEN [self |-> Filter, err |-> "KeyError"]
    ELSE
    LET dset == CHOOSE d \in g : TRUE
        nu   == [i \in 1..Len(dset.data) |-> dset.data[i][1]]
        tr   == [i \in 1..Len(dset.data) |-> dset.data[i][2]]
        r1   == set_spectral_coord(Filter, Quantity("Hz", nu))
        r2   == set_transmission(r1.self, Quantity("one", tr))
        r3   == set_name(r2.self, decode(dset.attrs.name))
    IN  IF r1.err # "ok" THEN [self |-> Filter, err |-> r1.err]
        ELSE IF r2.err # "ok" THEN [self |-> Filter, err |-> r2.err]
        ELSE r3

\* Arrays of n elements given to a Filter: 1..n as coordinates, ones and
\* zeros alternating as transmission; and one array of each kind that the
\* validation refuses for its values, and one for its unit.
Ascending(n) == [i \in 1..n |-> i]
Alternating(n) == [i \in 1..n |-> i % 2]
SpectralInputs ==
    {PyNone, Quantity("Hz", <<0>>), Quantity("K", <<1>>)}
    \cup {Quantity(unit, Ascending(n)) : unit \in {"Hz", "um"}, n \in 1..MaxLen}
TransmissionInputs ==
    {PyNone, Quantity("one", <<0 - 1>>), Quantity("Hz", <<1>>)}
    \cup {Quantity("one", Alternating(n)) : n \in 1..MaxLen}
NameInputs == {PyNone, Str("V"), PyInt}

\* ----------------------------------------------------------------- loaders
\* The model under construction, as far as the loaders' statements go: the
\* lengths of optical_properties.nu and .mu (NoneVal while unassigned), the
\* shapes of P1..P4 (<<>> while they are not allocated), md5, the values
\* held (kept for MieXDust only), the statements run on the table, in order,
\* and the exception raised, if one was.
Matrices == <<"P1", "P2", "P3", "P4">>
MatrixNames == {Matrices[k] : k \in 1..Len(Matrices)}
NewTable ==
    [nu |-> NoneVal, mu |-> NoneVal, P |-> <<>>, md5 |-> NoneVal,
     values |-> <<>>, events |-> <<>>, err |-> "ok"]
Event(e, a, b) == [e |-> e, a |-> a, b |-> b]
Raise(t, err) == IF t.err = "ok" THEN [t EXCEPT !.err = err] ELSE t

\* self.optical_properties.nu = <array of n elements>
set_nu(t, n) ==
    IF t.err # "ok" THEN t
    ELSE [t EXCEPT !.nu = n, !.events = Append(@, Event("nu", n, 0))]
\* self.optical_properties.mu = <array of n elements>
set_mu(t, n) ==
    IF t.err # "ok" THEN t
    ELSE [t EXCEPT !.mu = n, !.events = Append(@, Event("mu", n, 0))]

\* OpticalProperties.initialize_scattering_matrix(): P1..P4 are allocated
\* for (n_wav, n_mu); it fails when an axis is not set.
initialize_scattering_matrix(t) ==
    IF t.err # "ok" THEN t
    ELSE IF t.nu = NoneVal \/ t.mu = NoneVal THEN Raise(t, "axes not set")
    ELSE [t EXCEPT !.P = [q \in MatrixNames |-> <<t.nu, t.mu>>],
                   !.events = Append(@, Event("initialize_scattering_matrix",
                                              t.nu, t.mu))]

\* self.optical_properties.<q>[j, i] = <n values>, where 0 stands for ':'.
\* numpy writes n values into a slice of m elements when n = m or n = 1.
setitem(t, q, j, i, n) ==
    LET shape == t.P[q]
        m == IF j = 0 /\ i = 0 THEN shape[1] * shape[2]
             ELSE IF j = 0 THEN shape[1]
             ELSE IF i = 0 THEN shape[2] ELSE 1
    IN  IF t.err # "ok" THEN t
        ELSE IF t.P = <<>> THEN Raise(t, "TypeError")
        ELSE IF j > shape[1] \/ i > shape[2] THEN Raise(t, "IndexError")
        ELSE IF n # m /\ n # 1 THEN Raise(t, "ValueError")
        ELSE [t EXCEPT !.events = Append(@, Event(q, j, i))]

\* The four assignments P1[j, i] = ..., ..., P4[j, i] = ... of n values each.
RECURSIVE setitems(_, _, _, _, _)
setitems(t, k, j, i, n) ==
    IF k > Len(Matrices) THEN t
    ELSE setitems(setitem(t, Matrices[k], j, i, n), k + 1, j, i, n)

\* np.loadtxt of a table of the given number of rows. On a table with no row
\* it raises or returns an empty array, as the numpy installed decides.
loadtxt(rows, strict) ==
    IF rows = 0 /\ strict THEN [err |-> "IOError", len |-> 0]
    ELSE [err |-> "ok", len |-> rows]

\* IsotropicSphericalDust(wav, chi, albedo), wav of n_wav elements.
IsotropicSphericalDust(n_wav) ==
    LET t1 == set_mu(NewTable, 2)
        t2 == set_nu(t1, n_wav)
        t3 == initialize_scattering_matrix(t2)
    IN  setitems(t3, 1, 0, 0, 1)

\* for i in range(n_mu): P1[:, i], P2[:, i], P3[:, i], P4[:, i] = ...
RECURSIVE SimpleColumns(_, _, _)
SimpleColumns(t, i, n_mu) ==
    IF t.err # "ok" \/ i > n_mu THEN t
    ELSE SimpleColumns(setitems(t, 1, 0, i, t.nu), i + 1, n_mu)

\* The angles of SimpleSphericalDust's grid.
SimpleNMu == 100

\* SimpleSphericalDust(filename), the file holding the given number of rows.
SimpleSphericalDust(rows, strict) ==
    LET n_mu == SimpleNMu
        t1 == set_mu(NewTable, n_mu)
        dustfile == loadtxt(rows, strict)
        t2 == IF dustfile.err # "ok" THEN Raise(t1, dustfile.err)
              ELSE set_nu(t1, dustfile.len)
        t3 == IF t2.err # "ok" THEN t2 ELSE [t2 EXCEPT !.md5 = 1]
        t4 == initialize_scattering_matrix(t3)
    IN  SimpleColumns(t4, 1, n_mu)

\* for i in range(n_wav): the phase file of wavelength i holds lens[i] angles;
\* the first one gives mu and has the matrices allocated.
RECURSIVE CoatsphRows(_, _, _, _)
CoatsphRows(t, i, n_wav, lens) ==
    IF i > n_wav \/ t.err # "ok" THEN t
    ELSE LET t1 == IF i = 1
                   THEN initialize_scattering_matrix(set_mu(t, lens[i]))
                   ELSE t
         IN  CoatsphRows(setitems(t1, 1, i, 0, lens[i]), i + 1, n_wav, lens)

\* CoatsphSingle(directory, size, density): coatsph_forw.dat holds the given
\* number of rows.
CoatsphSingle(rows, strict, lens) ==
    LET dustfile == loadtxt(rows, strict)
        n_wav == dustfile.len
        t1 == IF dustfile.err # "ok" THEN Raise(NewTable, dustfile.err)
              ELSE set_nu(NewTable, n_wav)
    IN  CoatsphRows(t1, 1, n_wav, lens)

\* CoatsphMultiple(directory): the same statements on the other file layout.
CoatsphMultiple(rows, strict, lens) ==
    LET dustfile == loadtxt(rows, strict)
        n_wav == dustfile.len
        t1 == IF dustfile.err # "ok" THEN Raise(NewTable, dustfile.err)
              ELSE set_nu(NewTable, n_wav)
    IN  CoatsphRows(t1, 1, n_wav, lens)

\* self.optical_properties.<q> = <array of the given shape>
setattr(t, q, shape) ==
    IF t.err # "ok" THEN t
    ELSE [t EXCEPT !.P = IF t.P = <<>> THEN [x \in {q} |-> shape]
                         ELSE [t.P EXCEPT ![q] = shape],
                   !.events = Append(@, Event("rebind", shape[1], shape[2]))]

\* BHDust(model): <model>.wav and <model>.mu hold n_wav and n_mu values, the
\* four matrix files arrays of the shapes given.
BHDust(n_wav, n_mu, shapes) ==
    LET t1 == set_nu(NewTable, n_wav)
        t2 == set_mu(t1, n_mu)
        t3 == initialize_scattering_matrix(t2)
        t4 == setattr(t3, "P1", shapes[1])
        t5 == setattr(t4, "P2", shapes[2])
        t6 == setattr(t5, "P3", shapes[3])
    IN  setattr(t6, "P4", shapes[4])

\* ------------------------------------------------------------------ MieXDust
\* Values of the MieX tables: NaN, a number read from the entry (j, i) of the
\* file of quantity q, positive or not, the zero of a new array, or a number
\* interpolated at wavelength j between two samples <<wavelength, value>>.
NaN == [k |-> "nan"]
Num(q, j, i, positive) ==
    [k |-> "num", q |-> q, j |-> j, i |-> i, positive |-> positive]
ZeroValue == [k |-> "zero"]
Interpolated(j, lo, hi) == [k |-> "interp", j |-> j, lo |-> lo, hi |-> hi]
isnan(v) == v.k = "nan"
Positive(v) == v.k = "interp" \/ (v.k = "num" /\ v.positive)

\* The entry (j, i) of the file of quantity q, given the file's bad entries.
Cell(bad, q, j, i) ==
    IF [q |-> q, j |-> j, i |-> i, s |-> "nan"] \in bad THEN NaN
    ELSE Num(q, j, i, [q |-> q, j |-> j, i |-> i, s |-> "neg"] \notin bad)

\* kappa / (1 - albedo), element by element.
Divide(kappa, albedo) ==
    [j \in DOMAIN kappa |->
        IF isnan(kappa[j]) \/ isnan(albedo[j]) THEN NaN
        ELSE Num("chi", j, 0, TRUE)]

\* interp1d_fast_loglog(x, y, xval): x the wavelengths sampled, y the samples,
\* xval the wavelengths asked for. A wavelength outside the samples, or
\* between samples whose logarithm does not exist, gives NaN.
interp1d_fast_loglog(x, y, xval) ==
    [w \in xval |->
        LET below == {a \in x : a < w}
            above == {a \in x : a > w}
            lo == CHOOSE a \in below : \A b \in below : b <= a
            hi == CHOOSE a \in above : \A b \in above : a <= b
        IN  IF below = {} \/ above = {} THEN NaN
            ELSE IF ~Positive(y[lo]) \/ ~Positive(y[hi]) THEN NaN
            ELSE Interpolated(w, <<lo, y[lo]>>, <<hi, y[hi]>>)]

\* The repair without the look at what the interpolation has returned.
FixNaN_unchecked(values) ==
    LET invalid == {j \in DOMAIN values : isnan(values[j])}
        valid == DOMAIN values \ invalid
        fixed == interp1d_fast_loglog(valid, [j \in valid |-> values[j]], invalid)
    IN  [values |-> [j \in DOMAIN values |->
                        IF j \in invalid THEN fixed[j] ELSE values[j]],
         err |-> "ok"]

\* The repair of one array: the NaN entries are replaced by interpolation
\* over the others; err tells whether a NaN is left.
FixNaN(values) ==
    LET invalid == {j \in DOMAIN values : isnan(values[j])}
        valid == DOMAIN values \ invalid
        fixed == interp1d_fast_loglog(valid, [j \in valid |-> values[j]], invalid)
        new == [j \in DOMAIN values |->
                   IF j \in invalid THEN fixed[j] ELSE values[j]]
    IN  IF invalid = {} THEN [values |-> values, err |-> "ok"]
        ELSE IF \E j \in DOMAIN new : isnan(new[j])
        THEN [values |-> new, err |-> "Did not manage to fix NaN values"]
        ELSE [values |-> new, err |-> "ok"]

\* The values of a table, with those of quantity q replaced by v.
put(values, q, v) ==
    [x \in DOMAIN values \cup {q} |-> IF x = q THEN v ELSE values[x]]

\* for quantity in ['chi', 'albedo']: the repair of optical_properties.<q>.
RepairArray(t, q) ==
    LET r == FixNaN(t.values[q])
    IN  IF t.err # "ok" THEN t
        ELSE [t EXCEPT !.values = put(@, q, r.values), !.err = r.err]

\* The zeros of the matrices initialize_scattering_matrix has allocated.
Zeros(t) ==
    LET RECURSIVE Z(_, _)
        Z(values, k) ==
            IF k > Len(Matrices) THEN values
            ELSE Z(put(values, Matrices[k],
                       [j \in 1..t.nu |-> [i \in 1..t.mu |-> ZeroValue]]),
                   k + 1)
    IN  IF t.err # "ok" THEN t ELSE [t EXCEPT !.values = Z(@, 1)]

\* for i in range(n_mu): mu[i] = ... reads a line of f11 for each angle; a
\* line read past the end of the file has no first word.
RECURSIVE ReadMu(_, _, _, _)
ReadMu(t, i, n_mu, lines) ==
    IF i > n_mu \/ t.err # "ok" THEN t
    ELSE IF 2 + i > lines THEN Raise(t, "IndexError")
    ELSE ReadMu([t EXCEPT !.events = Append(@, Event("mu[i]", i, 0))],
                i + 1, n_mu, lines)

\* P1[j, i] ... P4[j, i] = the entries of the four files.
RECURSIVE ReadEntries(_, _, _, _)
ReadEntries(t, j, i, bad) ==
    LET t1 == setitems(t, 1, j, i, 1)
        RECURSIVE V(_, _)
        V(values, k) ==
            IF k > Len(Matrices) THEN values
            ELSE LET q == Matrices[k]
                 IN  V(put(values, q,
                           [values[q] EXCEPT ![j][i] = Cell(bad, q, j, i)]),
                       k + 1)
    IN  IF i > t.mu \/ t.err # "ok" THEN t
        ELSE IF t1.err # "ok" THEN t1
        ELSE ReadEntries([t1 EXCEPT !.values = V(@, 1)], j, i + 1, bad)

\* for j in range(n_wav): the wavelength each file states is compared with
\* wav[j], then the entries of the record are read; mismatch names the file
\* and the record that disagree, if any.
RECURSIVE ReadRecords(_, _, _, _)
ReadRecords(t, j, bad, mismatch) ==
    IF j > t.nu \/ t.err # "ok" THEN t
    ELSE IF mismatch # <<>> /\ mismatch[2] = j
    THEN Raise(t, "Incorrect wavelength in " \o mismatch[1])
    ELSE ReadRecords(ReadEntries(t, j, 1, bad), j + 1, bad, mismatch)

\* for i in range(n_mu): for quantity in ['P1', 'P2', 'P3', 'P4']: the repair
\* of column i of the matrix.
RECURSIVE RepairColumns(_, _, _)
RepairColumns(t, i, k) ==
    LET q == Matrices[k]
        r == FixNaN([j \in 1..t.nu |-> t.values[q][j][i]])
        new == [j \in 1..t.nu |-> [t.values[q][j] EXCEPT ![i] = r.values[j]]]
        t1 == [t EXCEPT !.values = put(@, q, new), !.err = r.err,
                        !.events = IF r.values = [j \in 1..t.nu |-> t.values[q][j][i]]
                                   THEN @ ELSE Append(@, Event(q, 0, i))]
    IN  IF i > t.mu \/ t.err # "ok" THEN t
        ELSE IF k > Len(Matrices) THEN RepairColumns(t, i + 1, 1)
        ELSE RepairColumns(t1, i, k + 1)

\* MieXDust(model): <model>.alb and <model>.k_abs hold the given number of
\* rows, each record of <model>.f11 ... f34 angles lines after its wavelength.
MieXDust(rows, strict, angles, bad, mismatch) ==
    LET wav == loadtxt(rows, strict)
        albedo == [j \in 1..wav.len |-> Cell(bad, "albedo", j, 0)]
        kappa == [j \in 1..wav.len |-> Cell(bad, "kappa", j, 0)]
        t1 == IF wav.err # "ok" THEN Raise(NewTable, wav.err)
              ELSE [NewTable EXCEPT !.values =
                       put(put(@, "albedo", albedo), "chi", Divide(kappa, albedo))]
        t2 == RepairArray(RepairArray(t1, "chi"), "albedo")
        t3 == set_nu(t2, wav.len)
        n_wav == wav.len
        lines == 1 + n_wav * (1 + angles)
        t4 == IF n_wav = 0 THEN Raise(t3, "ZeroDivisionError") ELSE t3
        n_mu == IF n_wav = 0 THEN 0 ELSE (lines \div n_wav) - 1
        t5 == set_mu(t4, n_mu)
        t6 == Zeros(initialize_scattering_matrix(t5))
        t7 == ReadMu(t6, 1, n_mu, lines)
        t8 == ReadRecords(t7, 1, bad, mismatch)
    IN  RepairColumns(t8, 1, 1)

\* ----------------------------------------------------------------- actions
DustInit ==
    /\ Is(Fresh)
    /\ files \in [Paths -> {{}} \cup {{c} : c \in ExternalContainers}]
    /\ written = [p \in Paths |-> {}]
    /\ last = Call("__init__", <<>>, "ok", <<>>)

FilterInit ==
    /\ name = Filter.name
    /\ spectral_coord = Filter.spectral_coord
    /\ transmission = Filter.transmission
    /\ group = {}
    /\ stored = {}
    /\ flast = [op |-> "__init__", err |-> "ok"]

\* The dust model as constructed, with no file.
DustParked ==
    /\ Is(Fresh)
    /\ files = [p \in Paths |-> {}]
    /\ written = [p \in Paths |-> {}]
    /\ last = Call("__init__", <<>>, "ok", <<>>)

\* No call of henyey_greenstein made.
HGParked ==
    /\ hg_in = [mu |-> Zero, g |-> Zero, p_lin_max |-> Zero]
    /\ hg_out = <<>>

\* No loader called.
LoaderParked ==
    /\ ld_in = [kind |-> "none"]
    /\ ld = {}

Init == DustInit /\ FilterInit /\ HGParked /\ LoaderParked

Construct ==
    \E args \in {<<>>} \cup {<<p>> : p \in Paths} \cup {<<p, p>> : p \in Paths} :
        LET r == init(Self, files, args)
        IN  /\ Become(r.self)
            /\ last' = Call("__init__", args, r.err, <<>>)
            /\ UNCHANGED <<files, written>>
        /\ UNCHANGED not_dust

SetTemperature ==
    \E mode \in ModeInputs, temperature \in Temperatures :
        LET r == set_sublimation_temperature(Self, mode, temperature)
        IN  /\ Become(r.self)
            /\ last' = Call("set_sublimation_temperature",
                            <<mode, temperature>>, r.err, <<>>)
            /\ UNCHANGED <<files, written>>
        /\ UNCHANGED not_dust

SetSpecificEnergy ==
    \E mode \in ModeInputs, e \in Energies(optical_properties) :
        LET r == set_sublimation_specific_energy(Self, mode, e)
        IN  /\ Become(r.self)
            /\ last' = Call("set_sublimation_specific_energy",
                            <<mode, e>>, r.err, <<>>)
            /\ UNCHANGED <<files, written>>
        /\ UNCHANGED not_dust

Write ==
    \E path \in Paths :
        LET r == write(Self, path)
        IN  /\ Become(r.self)
            /\ files' = [files EXCEPT ![path] = {r.ts}]
            /\ written' = [written EXCEPT ![path] =
                              {<<sublimation_mode, sublimation_energy>>}]
            /\ last' = Call("write", <<path>>, "ok", r.steps)
            /\ UNCHANGED not_dust

Plot ==
    LET r == plot(Self)
    IN  /\ Become(r.self)
        /\ last' = Call("plot", <<>>, "ok", r.steps)
        /\ UNCHANGED <<files, written>>
        /\ UNCHANGED not_dust

Read ==
    \E path \in Paths, is_str \in BOOLEAN :
        /\ is_str \/ files[path] # {}
        /\ LET r == read(Self, files, path, is_str)
           IN  /\ Become(r.self)
               /\ last' = Call("read", <<path, is_str>>, r.err, <<>>)
               /\ UNCHANGED <<files, written>>
        /\ UNCHANGED not_dust

Next ==
    \/ Construct
    \/ SetTemperature
    \/ SetSpecificEnergy
    \/ Write
    \/ Plot
    \/ Read

Spec == Init /\ [][Next]_vars

\* ---------------------------------------------------------- Filter actions
SetName ==
    \E value \in NameInputs :
        LET r == set_name(FilterSelf, value)
        IN  /\ FilterBecome(r.self)
            /\ flast' = [op |-> "name", err |-> r.err]
            /\ UNCHANGED <<group, stored>>
            /\ UNCHANGED not_filter

SetSpectralCoord ==
    \E value \in SpectralInputs :
        LET r == set_spectral_coord(FilterSelf, value)
        IN  /\ FilterBecome(r.self)
            /\ flast' = [op |-> "spectral_coord", err |-> r.err]
            /\ UNCHANGED <<group, stored>>
            /\ UNCHANGED not_filter

SetTransmission ==
    \E value \in TransmissionInputs :
        LET r == set_transmission(FilterSelf, value)
        IN  /\ FilterBecome(r.self)
            /\ flast' = [op |-> "transmission", err |-> r.err]
            /\ UNCHANGED <<group, stored>>
            /\ UNCHANGED not_filter

\* to_hdf5_group on the group held or on a new, empty one.
ToHdf5Group ==
    \E g \in {group, {}} :
        LET r == to_hdf5_group(FilterSelf, g)
        IN  /\ group' = r.group
            /\ stored' = IF r.err = "ok" THEN {FilterSelf}
                          ELSE IF g = {} THEN {} ELSE stored
            /\ flast' = [op |-> "to_hdf5_group", err |-> r.err]
            /\ UNCHANGED <<name, spectral_coord, transmission>>
            /\ UNCHANGED not_filter

\* from_hdf5_group: the caller holds the Filter returned, if one is.
FromHdf5Group ==
    LET r == from_hdf5_group(group)
    IN  /\ FilterBecome(IF r.err = "ok" THEN r.self ELSE FilterSelf)
        /\ flast' = [op |-> "from_hdf5_group", err |-> r.err]
        /\ UNCHANGED <<group, stored>>
        /\ UNCHANGED not_filter

FilterNext ==
    \/ SetName
    \/ SetSpectralCoord
    \/ SetTransmission
    \/ ToHdf5Group
    \/ FromHdf5Group

InitFilter == DustParked /\ FilterInit /\ HGParked /\ LoaderParked
SpecFilter == InitFilter /\ [][FilterNext]_vars

\* ------------------------------------------------ henyey_greenstein actions
\* A call of henyey_greenstein with the arguments drawn.
Evaluate ==
    /\ hg_out = <<>>
    /\ hg_out' = henyey_greenstein(hg_in.mu, hg_in.g, hg_in.p_lin_max)
    /\ UNCHANGED hg_in
    /\ UNCHANGED not_hg

InitHG ==
    /\ DustParked
    /\ FilterInit
    /\ hg_in \in HGInputs
    /\ hg_out = <<>>
    /\ LoaderParked

SpecHG == InitHG /\ [][Evaluate]_vars

\* ----------------------------------------------------------- loader actions
\* The entries of the MieX files that may be bad: NaN in any of them, not
\* positive in the file of P2, whose entries have either sign.
BadCells(n_wav, n_mu) ==
    {[q |-> q, j |-> j, i |-> 0, s |-> "nan"] :
        q \in {"albedo", "kappa"}, j \in 1..n_wav}
    \cup {[q |-> c[1], j |-> c[2], i |-> c[3], s |-> "nan"] :
            c \in MatrixNames \X (1..n_wav) \X (1..n_mu)}
    \cup {[q |-> "P2", j |-> c[1], i |-> c[2], s |-> "neg"] :
            c \in (1..n_wav) \X (1..n_mu)}
\* The choices of at most MaxBad bad entries, no two of them the same entry:
\* picks in the order of the files, the places not used coming first.
NoCell == [q |-> "", j |-> 0, i |-> 0, s |-> ""]
Quantities == <<"albedo", "kappa", "P1", "P2", "P3", "P4">>
Place(c) ==
    IF c = NoCell THEN 0
    ELSE LET k == CHOOSE x \in DOMAIN Quantities : Quantities[x] = c.q
         IN  ((k * (MaxWav + 1)) + c.j) * (MaxAngles + 1) + c.i
Picks(cells) ==
    {pick \in [1..MaxBad -> cells \cup {NoCell}] :
        \A x \in 1..(MaxBad - 1) :
            pick[x] = NoCell \/ Place(pick[x]) < Place(pick[x + 1])}
BadSet(pick) == {pick[x] : x \in DOMAIN pick} \ {NoCell}

\* MieXDust on files with bad entries and the wavelengths in agreement.
MieXInput(f, m, pick) ==
    [kind |-> "MieXDust", file |-> f, angles |-> m, bad |-> BadSet(pick),
     mismatch |-> <<>>]

\* Files of 0..MaxWav rows; strict tells what np.loadtxt does with no row.
Tables ==
    {[rows |-> n, strict |-> b] :
        n \in 0..MaxWav, b \in BOOLEAN} \ {[rows |-> n, strict |-> TRUE] : n \in 1..MaxWav}

LoaderInputs ==
    {[kind |-> "IsotropicSphericalDust", n_wav |-> n] : n \in 0..MaxWav}
    \cup {[kind |-> "SimpleSphericalDust", file |-> f] : f \in Tables}
    \cup UNION {{[kind |-> k, file |-> f, lens |-> l] :
                    l \in [1..f.rows -> 1..MaxMu]} :
                 k \in {"CoatsphSingle", "CoatsphMultiple"}, f \in Tables}
    \cup UNION {{[kind |-> "MieXDust", file |-> f, angles |-> m, bad |-> {},
                  mismatch |-> x] :
                    x \in {"f11", "f12", "f33", "f34"} \X (1..f.rows)} :
                 f \in Tables, m \in 1..MaxAngles}
    \cup UNION {{[kind |-> "BHDust", n_wav |-> n, n_mu |-> m, shapes |-> s] :
                    s \in [1..Len(Matrices) -> {<<n, m>>, <<m, n>>}]} :
                 n \in 0..MaxWav, m \in 1..MaxMu}

NewIsotropicSphericalDust ==
    /\ ld = {}
    /\ ld_in.kind = "IsotropicSphericalDust"
    /\ ld' = {IsotropicSphericalDust(ld_in.n_wav)}
    /\ UNCHANGED <<ld_in, not_loader>>

NewSimpleSphericalDust ==
    /\ ld = {}
    /\ ld_in.kind = "SimpleSphericalDust"
    /\ ld' = {SimpleSphericalDust(ld_in.file.rows, ld_in.file.strict)}
    /\ UNCHANGED <<ld_in, not_loader>>

NewCoatsphSingle ==
    /\ ld = {}
    /\ ld_in.kind = "CoatsphSingle"
    /\ ld' = {CoatsphSingle(ld_in.file.rows, ld_in.file.strict, ld_in.lens)}
    /\ UNCHANGED <<ld_in, not_loader>>

NewCoatsphMultiple ==
    /\ ld = {}
    /\ ld_in.kind = "CoatsphMultiple"
    /\ ld' = {CoatsphMultiple(ld_in.file.rows, ld_in.file.strict, ld_in.lens)}
    /\ UNCHANGED <<ld_in, not_loader>>

NewMieXDust ==
    /\ ld = {}
    /\ ld_in.kind = "MieXDust"
    /\ ld' = {MieXDust(ld_in.file.rows, ld_in.file.strict, ld_in.angles,
                       ld_in.bad, ld_in.mismatch)}
    /\ UNCHANGED <<ld_in, not_loader>>

NewBHDust ==
    /\ ld = {}
    /\ ld_in.kind = "BHDust"
    /\ ld' = {BHDust(ld_in.n_wav, ld_in.n_mu, ld_in.shapes)}
    /\ UNCHANGED <<ld_in, not_loader>>

LoaderNext ==
    \/ NewIsotropicSphericalDust
    \/ NewSimpleSphericalDust
    \/ NewCoatsphSingle
    \/ NewCoatsphMultiple
    \/ NewMieXDust
    \/ NewBHDust

InitLoader ==
    /\ DustParked
    /\ FilterInit
    /\ HGParked
    /\ \/ ld_in \in LoaderInputs
       \/ \E f \in Tables, m \in 1..MaxAngles :
             \E pick \in Picks(BadCells(f.rows, m)) :
                ld_in = MieXInput(f, m, pick)
    /\ ld = {}

SpecLoader == InitLoader /\ [][LoaderNext]_vars

\* ------------------------------------------------------------------ claims
Setters == {"set_sublimation_temperature", "set_sublimation_specific_energy"}
Fields ==
    <<filename, md5, optical_properties, mean_opacities, emissivities,
      sublimation_mode, sublimation_energy>>
\* The container at a path that holds one.
ContainerAt(p) == CHOOSE c \in files[p] : TRUE

\* C1: a read of a container whose version or type keyword is not 1 raises,
\* and no field of the model has changed when it does.
C1_RejectedReadLeavesModel ==
    [][(/\ last'.op = "read"
        /\ files[last'.args[1]] # {}
        /\ \/ ContainerAt(last'.args[1]).keywords["version"] # 1
           \/ ContainerAt(last'.args[1]).keywords["type"] # 1)
       => (last'.err # "ok" /\ UNCHANGED Fields)]_vars

\* C2: after a model is written to a path and that path is read, the reading
\* model holds the sublimation mode and energy of the written model.
C2_SublimationRoundTrip ==
    (/\ \/ last.op = "read"
        \/ last.op = "__init__" /\ Len(last.args) = 1
     /\ last.err = "ok"
     /\ written[last.args[1]] # {})
    => <<sublimation_mode, sublimation_energy>> \in written[last.args[1]]

\* C3: each setter rejects a mode outside no/fast/slow/cap and a None
\* threshold with a mode other than 'no'; the rejected call raises and leaves
\* sublimation_mode and sublimation_energy as they were.
Rejected(args) ==
    args[1] \notin Modes \/ (args[1] # "no" /\ args[2] = NoneVal)
C3_SettersRejectAtomically ==
    [][(last'.op \in Setters /\ Rejected(last'.args))
       => (/\ last'.err \in {"mode should be one of no/fast/slow/cap",
                             "Need to specify a sublimation temperature",
                             "Need to specify a sublimation specific_energy"}
           /\ UNCHANGED <<sublimation_mode, sublimation_energy>>)]_vars
C3_Witness ==
    /\ last.op = "set_sublimation_temperature"
    /\ last.args = <<"slow", NoneVal>>
    /\ last.err = "Need to specify a sublimation temperature"
    /\ sublimation_mode = "fast"

\* C4: set_sublimation_temperature(mode, T), T not None, leaves the model as
\* set_sublimation_specific_energy(mode, E) would, E the conversion of T on the
\* table held; and either call after the other with such inputs changes nothing.
Equivalent(argsT, argsE) ==
    /\ argsT[1] = argsE[1]
    /\ argsT[1] \in Modes
    /\ argsT[2] # NoneVal
    /\ argsE[2] = temperature2specific_energy(optical_properties, argsT[2])
C4_SettersEquivalent ==
    [][/\ (/\ last'.op = "set_sublimation_temperature"
           /\ last'.args[1] \in Modes
           /\ last'.args[2] # NoneVal)
          => /\ last'.err = "ok"
             /\ Self' = set_sublimation_specific_energy(
                            Self, last'.args[1],
                            temperature2specific_energy(optical_properties,
                                                        last'.args[2])).self
       /\ (/\ last.op = "set_sublimation_temperature"
           /\ last'.op = "set_sublimation_specific_energy"
           /\ Equivalent(last.args, last'.args))
          => UNCHANGED Fields
       /\ (/\ last.op = "set_sublimation_specific_energy"
           /\ last'.op = "set_sublimation_temperature"
           /\ Equivalent(last'.args, last.args))
          => UNCHANGED Fields]_vars
C4_Witness ==
    /\ last.op = "set_sublimation_temperature"
    /\ last.args = <<"fast", 1>>
    /\ last.err = "ok"
    /\ optical_properties = "ext"
    /\ sublimation_mode = "fast"
    /\ sublimation_energy = temperature2specific_energy("ext", 1)

\* C5: whenever spectral_coord and transmission of a Filter are both set,
\* they have the same length.
C5_LengthsAgree ==
    (spectral_coord # PyNone /\ transmission # PyNone)
    => Len(transmission.value) = Len(spectral_coord.value)

\* C6: a Filter whose spectral_coord and transmission are set (and agree in
\* length), stored with to_hdf5_group and read with from_hdf5_group, comes
\* back with the same name (None stays None), the same transmission and its
\* spectral coordinates as frequencies, in the same order.
C6_FilterRoundTrip ==
    (flast.op = "from_hdf5_group" /\ flast.err = "ok")
    => \A w \in stored :
           Len(w.transmission.value) = Len(w.spectral_coord.value)
           => /\ name = w.name
              /\ transmission.value = w.transmission.value
              /\ spectral_coord = Quantity("Hz", ToHz(w.spectral_coord))

\* C7: every container write produced holds 'sublimation_mode' with the mode
\* of the model written, and 'sublimation_specific_energy' exactly when that
\* mode is not 'no', and then with the model's sublimation_energy.
C7_SublimationKeywords ==
    \A p \in Paths : \A policy \in written[p] :
        LET kw == ContainerAt(p).keywords
        IN  /\ "sublimation_mode" \in DOMAIN kw
            /\ kw["sublimation_mode"] = policy[1]
            /\ ("sublimation_specific_energy" \in DOMAIN kw) <=> (policy[1] # "no")
            /\ policy[1] # "no" =>
                   kw["sublimation_specific_energy"] = policy[2]
C7_Witness ==
    /\ last.op = "write"
    /\ written[1] = {<<"cap", 1>>}
    /\ ContainerAt(1).keywords["sublimation_specific_energy"] = 1

\* C8 as stated: at g = 0, P1 = 1 and P2 = P3 = P4 = 0 whatever mu and
\* p_lin_max are.
C8_AllZeroAtG0 ==
    (hg_out # <<>> /\ hg_in.g = Zero)
    => (hg_out[1] = One /\ hg_out[2] = Zero /\ hg_out[3] = Zero
        /\ hg_out[4] = Zero)

\* C8 amended: at g = 0, P1 = 1 and P4 = 0, P2 = -p_lin_max (1 - mu^2)/(1 + mu^2)
\* and P3 = 2 mu/(1 + mu^2); so P2 = 0 only where p_lin_max = 0 or mu is 1 or
\* -1, and P3 = 0 only at mu = 0.
C8_IsotropicLimit ==
    (hg_out # <<>> /\ hg_in.g = Zero)
    => LET mu    == hg_in.mu
           plm   == hg_in.p_lin_max
           denom == RAdd(One, RMul(mu, mu))
       IN  /\ hg_out[1] = One
           /\ hg_out[4] = Zero
           /\ RMul(hg_out[2], denom) = RMul(RNeg(plm), RSub(One, RMul(mu, mu)))
           /\ RMul(hg_out[3], denom) = RMul(Two, mu)
           /\ (hg_out[2] = Zero) <=> (plm = Zero \/ mu \in {One, RNeg(One)})
           /\ (hg_out[3] = Zero) <=> (mu = Zero)
C8_Witness ==
    /\ hg_out # <<>>
    /\ hg_in.g = Zero
    /\ hg_out[2] # Zero
    /\ hg_out[3] # Zero

\* C9: emissivities and mean opacities are unset after construction with no
\* argument; each becomes set only in write, plot or a read that succeeds;
\* once set, no write, plot or setter call unsets or recomputes it.
SuccessfulRead(call) ==
    /\ call.err = "ok"
    /\ call.op = "read" \/ (call.op = "__init__" /\ Len(call.args) = 1)
C9_Sticky ==
    [][/\ (last'.op = "__init__" /\ Len(last'.args) = 0)
          => (~emissivities'.set /\ ~mean_opacities'.set)
       /\ (~emissivities.set /\ emissivities'.set)
          => (last'.op \in {"write", "plot"} \/ SuccessfulRead(last'))
       /\ (~mean_opacities.set /\ mean_opacities'.set)
          => (last'.op \in {"write", "plot"} \/ SuccessfulRead(last'))
       /\ (emissivities.set /\ last'.op \in {"write", "plot"} \cup Setters)
          => emissivities' = emissivities
       /\ (mean_opacities.set /\ last'.op \in {"write", "plot"} \cup Setters)
          => mean_opacities' = mean_opacities]_vars
C9_Witness ==
    /\ last.op = "write"
    /\ Len(last.steps) = 1
    /\ emissivities = from_table_set(<<"table", "ext", "">>)
    /\ mean_opacities = from_table_set(<<"table", "ext", "">>)

\* C10: in write and plot the LTE emissivities are computed only if unset at
\* entry, the mean opacities only if unset at entry, emissivities first, and
\* both are set before anything is serialized or plotted; the mean opacities
\* are never computed from unset emissivities.
StepsInOrder(entry, steps) ==
    \A i \in 1..Len(steps) :
        /\ steps[i].step = "set_lte" => ~entry.emissivities.set
        /\ steps[i].step = "compute" => (~entry.mean_opacities.set /\ steps[i].em)
        /\ steps[i].step \in {"to_table_set", "plot"} =>
               (steps[i].em /\ steps[i].mo)
        /\ \A j \in 1..Len(steps) :
               (steps[i].step = "set_lte" /\ steps[j].step = "compute") => i < j
\* Every combination of the two flags at entry.
Entries ==
    {[Self EXCEPT !.emissivities = e, !.mean_opacities = m] :
        e \in {Emissivities, set_lte("ext")},
        m \in {MeanOpacities, from_table_set(<<"table", "ext", "">>)}}
C10_LazyOrder ==
    /\ last.op \in {"write", "plot"} =>
           /\ Len(last.steps) >= 1
           /\ \A i \in 1..Len(last.steps) :
                  /\ last.steps[i].step = "set_lte" => ~last.steps[1].em
                  /\ last.steps[i].step = "compute" =>
                         (~last.steps[1].mo /\ last.steps[i].em)
                  /\ last.steps[i].step \in {"to_table_set", "plot"} =>
                         (last.steps[i].em /\ last.steps[i].mo)
                  /\ \A j \in 1..Len(last.steps) :
                         (/\ last.steps[i].step = "set_lte"
                          /\ last.steps[j].step = "compute") => i < j
           /\ emissivities.set /\ mean_opacities.set
    /\ \A s \in Entries :
           /\ StepsInOrder(s, write(s, 1).steps)
           /\ StepsInOrder(s, plot(s).steps)
           /\ write(s, 1).self.emissivities.set
           /\ write(s, 1).self.mean_opacities.set
C10_Witness ==
    /\ last.op = "write"
    /\ Len(last.steps) = 3
    /\ last.steps[1].step = "set_lte"
    /\ last.steps[2].step = "compute"
    /\ ~last.steps[1].em

\* The model a loader has built, once its constructor has run.
Built == CHOOSE t \in ld : TRUE
Completed == ld # {} /\ Built.err = "ok"

\* C11: in every construction of a format loader that completes,
\* initialize_scattering_matrix is called after nu and mu have both been
\* assigned, no element of P1..P4 is written before that call, neither axis
\* is assigned a different length after it, and the call has allocated
\* P1..P4 for the final (n_wav, n_mu).
C11_ConstructionOrder ==
    Completed =>
        LET ev == Built.events
        IN  \E k \in DOMAIN ev :
                /\ ev[k].e = "initialize_scattering_matrix"
                /\ \E a \in 1..(k - 1) : ev[a].e = "nu"
                /\ \E a \in 1..(k - 1) : ev[a].e = "mu"
                /\ \A a \in 1..(k - 1) : ev[a].e \notin MatrixNames
                /\ \A a \in (k + 1)..Len(ev) :
                       /\ ev[a].e = "nu" => ev[a].a = ev[k].a
                       /\ ev[a].e = "mu" => ev[a].a = ev[k].b
                /\ <<ev[k].a, ev[k].b>> = <<Built.nu, Built.mu>>

\* The arrays MieXDust starts from: albedo and the matrix columns as their
\* files hold them, chi as computed from kappa and albedo.
FileAlbedo == [j \in 1..ld_in.file.rows |-> Cell(ld_in.bad, "albedo", j, 0)]
FileChi ==
    Divide([j \in 1..ld_in.file.rows |-> Cell(ld_in.bad, "kappa", j, 0)],
           FileAlbedo)
FileColumn(q, i) == [j \in 1..ld_in.file.rows |-> Cell(ld_in.bad, q, j, i)]

\* An array is the repair of another: no NaN is in it, what was valid is as
\* it was, and what was NaN is interpolated between two of the valid samples
\* of that same array, one at a shorter and one at a longer wavelength.
RepairOf(new, old) ==
    /\ DOMAIN new = DOMAIN old
    /\ \A j \in DOMAIN new :
          /\ ~isnan(new[j])
          /\ ~isnan(old[j]) => new[j] = old[j]
          /\ isnan(old[j]) =>
                /\ new[j].k = "interp"
                /\ new[j].j = j
                /\ new[j].lo[1] \in DOMAIN old /\ new[j].lo[1] < j
                /\ new[j].hi[1] \in DOMAIN old /\ new[j].hi[1] > j
                /\ new[j].lo[2] = old[new[j].lo[1]] /\ ~isnan(new[j].lo[2])
                /\ new[j].hi[2] = old[new[j].hi[1]] /\ ~isnan(new[j].hi[2])

\* C12: whenever the construction of a MieXDust completes without raising,
\* chi, albedo and every column of P1..P4 hold no NaN, and each of them is
\* its input with the NaN entries interpolated over its own valid
\* wavelengths; a NaN left after interpolation makes the construction raise.
C12_NaNRepair ==
    (Completed /\ ld_in.kind = "MieXDust") =>
        /\ RepairOf(Built.values["chi"], FileChi)
        /\ RepairOf(Built.values["albedo"], FileAlbedo)
        /\ \A q \in MatrixNames : \A i \in 1..Built.mu :
              RepairOf([j \in 1..Built.nu |-> Built.values[q][j][i]],
                       FileColumn(q, i))
\* A MieXDust built from files with NaN in albedo and in a matrix column.
C12_Witness ==
    /\ Completed
    /\ ld_in.kind = "MieXDust"
    /\ \E c \in ld_in.bad : c.q = "albedo" /\ c.s = "nan"
    /\ \E c \in ld_in.bad : c.q \in MatrixNames /\ c.s = "nan"
====
